---- MODULE Spec2Model ----
(***************************************************************************)
(* A model of the ownership and lifetime bridging of rust-sfml: owning     *)
(* handles over foreign allocations (View, Context, CircleShape, the C++   *)
(* string), the CustomShape callback trampolines with their capability     *)
(* box, the sound-recorder sink, and the UTF-8 <-> UTF-32 string bridge.   *)
(***************************************************************************)
EXTENDS Integers, Sequences, FiniteSets, TLC

VARIABLES
    heap,       \* the foreign heap: one record per allocation ever made, indexed by pointer
    nullCalls,  \* foreign calls (other than factories) that were handed a null pointer
    handles,    \* the host's owning handles, one record per handle ever built
    last,       \* the operation just performed: its name, what the foreign factory returned,
                \* its result, the handle it built, and the foreign calls it made, in order
    boxes,      \* capability boxes (Box<Box<dyn CustomShapePoints>>) ever allocated
    pc,         \* position of the host thread inside a multi-step operation
    capLog,     \* the trampoline invocations of the current foreign operation, in order
    rec,        \* the sound recorder: driver state, the file, the invocation log
    str,        \* the string bridge: input, UTF-32 buffer, output, phase
    thr,        \* the host's threads: the running ones, and the last query of the
                \* active context (the asking thread and the pointer it was given)
    iter        \* an iteration over a foreign string vector: the vector, the iterator's
                \* len and cursor, the foreign index calls made, the items yielded

vars == <<heap, nullCalls, handles, last, boxes, pc, capLog, rec, str, thr, iter>>

\* ------------------------------------------------------------------ bounds
MaxObjs == 3        \* foreign allocations and handles per run
MaxShapes == 2      \* capability boxes per run
MaxPoints == 4      \* largest point count a capability reports
MaxBlocks == 4      \* sample blocks the capture thread delivers per run
MaxSamples == 2     \* samples per block
MaxLen == 3         \* chars per input string
MaxThreads == 2     \* threads per run, the main thread included
MaxSide == 4000     \* largest width or height a view is zoomed to
MaxVec == 4         \* strings in a foreign string vector
MaxExtra == 2       \* calls of next() made after the iterator is exhausted

\* --------------------------------------------------------------- constants
Null == 0           \* the null pointer (ptr::null_mut())
MainThread == 1     \* the thread the program starts on

\* ------------------------------------------------------------ Option/Result
None == [tag |-> "None"]
Some(v) == [tag |-> "Some", val |-> v]
Err == [tag |-> "Err"]
Ok(v) == [tag |-> "Ok", val |-> v]

\* FBox::new(ptr): Some(handle over ptr) iff ptr is non-null
FBoxNew(p) == IF p = Null THEN None ELSE Some(p)

\* Option::into_sf_result: None becomes the error value
IntoSfResult(o) == IF o.tag = "None" THEN Err ELSE Ok(o.val)

\* ------------------------------------------------------------ foreign heap
Call(fn, p) == [fn |-> fn, ptr |-> p]
CallWith(fn, p, arg) == [fn |-> fn, ptr |-> p, arg |-> arg]

\* sf::View's state after View(): reset(FloatRect(0, 0, 1000, 1000))
DefaultRect == [left |-> 0, top |-> 0, width |-> 1000, height |-> 1000]
Rects == {DefaultRect, [left |-> 10, top |-> 20, width |-> 4, height |-> 6]}

\* the viewport of a new view: the whole target
DefaultViewport == [left |-> 0, top |-> 0, width |-> 1, height |-> 1]
Viewports == {DefaultViewport, [left |-> 1, top |-> 1, width |-> 0, height |-> 0]}

\* sf::View(rect): center is the rectangle's middle, size its extent, no rotation,
\* the default viewport
ViewOfRect(r) ==
    [center |-> <<r.left + (r.width \div 2), r.top + (r.height \div 2)>>,
     size |-> <<r.width, r.height>>, rotation |-> 0, viewport |-> DefaultViewport]

\* sf::View::reset(rect) on a view in state data: the viewport stays
sfView_reset(data, r) == [ViewOfRect(r) EXCEPT !.viewport = data.viewport]

InitData(kind) ==
    CASE kind = "View" -> ViewOfRect(DefaultRect)
      [] kind = "Context" -> [active |-> TRUE, thread |-> MainThread]
      [] kind = "CircleShape" -> [radius |-> 0, texture |-> Null]
      [] OTHER -> <<>>

\* what a foreign factory or copy constructor can return: null, or a fresh allocation
FactoryReturns(hp) == {Null} \cup (IF Len(hp) < MaxObjs THEN {Len(hp) + 1} ELSE {})

\* the heap after a factory returned p (nothing is allocated when it returned null)
ForeignNew(hp, kind, p) ==
    IF p = Null THEN hp
    ELSE Append(hp, [kind |-> kind, live |-> TRUE, dels |-> 0, stale |-> 0,
                     data |-> InitData(kind)])

\* the heap after a copy constructor returned p for the source allocation src
ForeignCpy(hp, src, p) ==
    IF p = Null THEN hp
    ELSE Append(hp, [kind |-> hp[src].kind, live |-> TRUE, dels |-> 0, stale |-> 0,
                     data |-> hp[src].data])

\* what a foreign destructor leaves of the object's state: a context is deactivated
DataAfterDel(kind, data) ==
    IF kind = "Context" THEN [data EXCEPT !.active = FALSE] ELSE data

\* the heap after the foreign destructor ran on p
ForeignDel(hp, p) ==
    IF p = Null THEN hp
    ELSE [hp EXCEPT ![p].live = FALSE, ![p].dels = @ + 1,
                    ![p].data = DataAfterDel(hp[p].kind, @)]

\* the heap after a foreign accessor or mutator touched p, leaving newData in it; a
\* call on a destroyed allocation is recorded
ForeignUse(hp, p, newData) ==
    IF p = Null THEN hp
    ELSE IF hp[p].live THEN [hp EXCEPT ![p].data = newData]
    ELSE [hp EXCEPT ![p].stale = @ + 1]

NullHit(p) == IF p = Null THEN 1 ELSE 0

\* ------------------------------------------------------------------ handles
\* an owning handle: the pointer it wraps, the handle it was copied from (0 if none),
\* the thread that holds it, and the textures it borrows for its lifetime parameter
Handle(kind, p, from) ==
    [kind |-> kind, ptr |-> p, live |-> TRUE, from |-> from, thread |-> MainThread,
     borrows |-> {}]

LiveHandles(kind) ==
    {h \in 1..Len(handles) : handles[h].live /\ handles[h].kind = kind}

Room == Len(handles) < MaxObjs

Idle == pc.op = "idle"

OtherUnchanged == UNCHANGED <<boxes, pc, capLog, rec, str, thr, iter>>

\* an acquisition through FBox::new(..).into_sf_result(): the handle exists iff Ok
Acquired(kind, op, p, res, calls) ==
    /\ handles' = IF res.tag = "Ok" THEN Append(handles, Handle(kind, res.val, 0))
                  ELSE handles
    /\ last' = [op |-> op, ret |-> p, res |-> res.tag,
                h |-> IF res.tag = "Ok" THEN Len(handles) + 1 ELSE 0,
                calls |-> calls]

\* ------------------------------------------------------------------- View
View_new ==
    /\ Idle /\ Room
    /\ \E p \in FactoryReturns(heap) :
         LET res == IntoSfResult(FBoxNew(p)) IN
         /\ heap' = ForeignNew(heap, "View", p)
         /\ nullCalls' = nullCalls
         /\ Acquired("View", "View_new", p, res, <<Call("sfView_new", p)>>)
    /\ OtherUnchanged

\* from_rect without the `?`: the rectangle is applied to whatever the factory returned
View_from_rect_unchecked ==
    /\ Idle /\ Room
    /\ \E p \in FactoryReturns(heap), rectangle \in Rects :
         LET res == IntoSfResult(FBoxNew(p))
             made == ForeignNew(heap, "View", p)
         IN  /\ heap' = ForeignUse(made, p, ViewOfRect(rectangle))
             /\ nullCalls' = nullCalls + NullHit(p)
             /\ Acquired("View", "View_from_rect", p, res,
                         <<Call("sfView_new", p), Call("sfView_reset", p)>>)
    /\ OtherUnchanged

View_from_rect ==
    /\ Idle /\ Room
    /\ \E p \in FactoryReturns(heap), rectangle \in Rects :
         LET res == IntoSfResult(FBoxNew(p))
             made == ForeignNew(heap, "View", p)
         IN  IF res.tag = "Err"
             THEN \* Self::new()? returns the error
                  /\ heap' = made
                  /\ nullCalls' = nullCalls
                  /\ Acquired("View", "View_from_rect", p, res,
                              <<Call("sfView_new", p)>>)
             ELSE /\ heap' = ForeignUse(made, res.val, ViewOfRect(rectangle))
                  /\ nullCalls' = nullCalls + NullHit(res.val)
                  /\ Acquired("View", "View_from_rect", p, res,
                              <<Call("sfView_new", p), Call("sfView_reset", res.val)>>)
    /\ OtherUnchanged

\* the arguments with_center_and_size is called with
Centers == {<<12, 23>>, <<0, 0>>}
Sizes == {<<4, 6>>}

\* a default that wraps whatever sfView_new returned
View_raw_default_unchecked(p) == Ok(p)

\* RawDefault for View: NonNull::new(sfView_new()).expect("Failed to create view")
View_raw_default(p) == IF p = Null THEN [tag |-> "Panic"] ELSE Ok(p)

\* View::with_center_and_size: Default::default(), then set_center and set_size
View_with_center_and_size ==
    /\ Idle /\ Room
    /\ \E p \in FactoryReturns(heap), center \in Centers, size \in Sizes :
         LET res == View_raw_default(p)
             made == ForeignNew(heap, "View", p)
         IN  IF res.tag = "Panic"
             THEN /\ heap' = made
                  /\ nullCalls' = nullCalls
                  /\ Acquired("View", "View_with_center_and_size", p, res,
                              <<Call("sfView_new", p)>>)
             ELSE /\ heap' = ForeignUse(made, res.val,
                                        [InitData("View") EXCEPT !.center = center,
                                                                 !.size = size])
                  /\ nullCalls' = nullCalls + 2 * NullHit(res.val)
                  /\ Acquired("View", "View_with_center_and_size", p, res,
                              <<Call("sfView_new", p),
                                CallWith("sfView_setCenter", res.val, center),
                                CallWith("sfView_setSize", res.val, size)>>)
    /\ OtherUnchanged

View_reset ==
    /\ Idle
    /\ \E h \in LiveHandles("View"), rectangle \in Rects :
         /\ heap' = ForeignUse(heap, handles[h].ptr,
                               sfView_reset(heap[handles[h].ptr].data, rectangle))
         /\ nullCalls' = nullCalls + NullHit(handles[h].ptr)
         /\ last' = [op |-> "View_reset", ret |-> Null, res |-> "Unit", h |-> h,
                     calls |-> <<Call("sfView_reset", handles[h].ptr)>>]
    /\ UNCHANGED handles
    /\ OtherUnchanged

\* the factors zoom is called with
Factors == {1, 2, 3}

\* sf::View::zoom(factor): setSize(size * factor)
sfView_zoom(data, factor) ==
    [data EXCEPT !.size = <<data.size[1] * factor, data.size[2] * factor>>]

\* a zoom that reaches the neighbouring foreign function, sfView_rotate
View_zoom_rotates(data, factor) == [data EXCEPT !.rotation = (@ + factor) % 360]

\* the foreign call View::zoom makes: sfView_zoom(self, factor)
View_zoom_call(data, factor) == sfView_zoom(data, factor)

View_zoom ==
    /\ Idle
    /\ \E h \in LiveHandles("View"), factor \in Factors :
         LET data == heap[handles[h].ptr].data IN
         /\ data.size[1] * factor <= MaxSide /\ data.size[2] * factor <= MaxSide
         /\ heap' = ForeignUse(heap, handles[h].ptr, View_zoom_call(data, factor))
         /\ nullCalls' = nullCalls + NullHit(handles[h].ptr)
         /\ last' = [op |-> "View_zoom", ret |-> Null, res |-> "Unit", h |-> h,
                     calls |-> <<CallWith("sfView_zoom", handles[h].ptr, factor)>>]
    /\ UNCHANGED handles
    /\ OtherUnchanged

\* View::set_center
View_set_center ==
    /\ Idle
    /\ \E h \in LiveHandles("View"), center \in Centers :
         /\ heap' = ForeignUse(heap, handles[h].ptr,
                               [heap[handles[h].ptr].data EXCEPT !.center = center])
         /\ nullCalls' = nullCalls + NullHit(handles[h].ptr)
         /\ last' = [op |-> "View_set_center", ret |-> Null, res |-> "Unit", h |-> h,
                     calls |-> <<CallWith("sfView_setCenter", handles[h].ptr, center)>>]
    /\ UNCHANGED handles
    /\ OtherUnchanged

\* the angles set_rotation is called with
Angles == {0, 90}

\* View::set_rotation
View_set_rotation ==
    /\ Idle
    /\ \E h \in LiveHandles("View"), angle \in Angles :
         /\ heap' = ForeignUse(heap, handles[h].ptr,
                               [heap[handles[h].ptr].data EXCEPT !.rotation = angle])
         /\ nullCalls' = nullCalls + NullHit(handles[h].ptr)
         /\ last' = [op |-> "View_set_rotation", ret |-> Null, res |-> "Unit", h |-> h,
                     calls |-> <<CallWith("sfView_setRotation", handles[h].ptr, angle)>>]
    /\ UNCHANGED handles
    /\ OtherUnchanged

\* View::set_viewport
View_set_viewport ==
    /\ Idle
    /\ \E h \in LiveHandles("View"), viewport \in Viewports :
         /\ heap' = ForeignUse(heap, handles[h].ptr,
                               [heap[handles[h].ptr].data EXCEPT !.viewport = viewport])
         /\ nullCalls' = nullCalls + NullHit(handles[h].ptr)
         /\ last' = [op |-> "View_set_viewport", ret |-> Null, res |-> "Unit", h |-> h,
                     calls |-> <<CallWith("sfView_setViewport", handles[h].ptr, viewport)>>]
    /\ UNCHANGED handles
    /\ OtherUnchanged

\* View::size: what sfView_getSize returns
View_size ==
    /\ Idle
    /\ \E h \in LiveHandles("View") :
         /\ heap' = ForeignUse(heap, handles[h].ptr, heap[handles[h].ptr].data)
         /\ nullCalls' = nullCalls + NullHit(handles[h].ptr)
         /\ last' = [op |-> "View_size", ret |-> heap[handles[h].ptr].data.size,
                     res |-> "Unit", h |-> h,
                     calls |-> <<Call("sfView_getSize", handles[h].ptr)>>]
    /\ UNCHANGED handles
    /\ OtherUnchanged

\* a copy that keeps the source's pointer
View_to_owned_alias(h, view) == Handle("View", handles[h].ptr, h)

\* the handle `to_owned` builds from the pointer sfView_cpy returned
View_to_owned_handle(h, view) == Handle("View", view, h)

View_to_owned ==
    /\ Idle /\ Room
    /\ \E h \in LiveHandles("View"), view \in FactoryReturns(heap) :
         LET o == FBoxNew(view) IN
         /\ heap' = ForeignCpy(ForeignUse(heap, handles[h].ptr, heap[handles[h].ptr].data),
                               handles[h].ptr, view)
         /\ nullCalls' = nullCalls + NullHit(handles[h].ptr)
         /\ IF o.tag = "None"
            THEN \* .expect("Failed to copy View") panics
                 /\ handles' = handles
                 /\ last' = [op |-> "View_to_owned", ret |-> view, res |-> "Panic", h |-> 0,
                             calls |-> <<Call("sfView_cpy", handles[h].ptr)>>]
            ELSE /\ handles' = Append(handles, View_to_owned_handle(h, o.val))
                 /\ last' = [op |-> "View_to_owned", ret |-> view, res |-> "Ok",
                             h |-> Len(handles) + 1,
                             calls |-> <<Call("sfView_cpy", handles[h].ptr)>>]
    /\ OtherUnchanged

\* the heap after the destructor calls of a drop, in order
RECURSIVE ApplyDels(_, _)
ApplyDels(hp, calls) ==
    IF calls = <<>> THEN hp
    ELSE ApplyDels(ForeignDel(hp, Head(calls).ptr), Tail(calls))

RECURSIVE NullHits(_)
NullHits(calls) ==
    IF calls = <<>> THEN 0 ELSE NullHit(Head(calls).ptr) + NullHits(Tail(calls))

\* the end of a handle's life: its Drop impl runs, making `calls`
Dropped(h, op, calls) ==
    /\ heap' = ApplyDels(heap, calls)
    /\ nullCalls' = nullCalls + NullHits(calls)
    /\ handles' = [handles EXCEPT ![h].live = FALSE]
    /\ last' = [op |-> op, ret |-> Null, res |-> "Unit", h |-> h, calls |-> calls]

\* a drop that never reaches the foreign destructor
View_drop_leak(h) == <<>>

\* the calls `impl Drop for View` makes for the handle h
View_drop_calls(h) == <<Call("sfView_del", handles[h].ptr)>>

View_drop ==
    /\ Idle
    /\ \E h \in LiveHandles("View") : Dropped(h, "View_drop", View_drop_calls(h))
    /\ OtherUnchanged

\* ------------------------------------------------------------------ Context
Threads == 1..MaxThreads

\* sf::Context(): the new context is active on the thread that made it
sfContext_new(hp, p, t) == ForeignUse(ForeignNew(hp, "Context", p), p,
                                      [active |-> TRUE, thread |-> t])

\* sf::Context::setActive(active), called on thread t
sfContext_setActive(hp, p, active, t) ==
    ForeignUse(hp, p, IF active THEN [active |-> TRUE, thread |-> t]
                      ELSE [hp[p].data EXCEPT !.active = FALSE])

\* the contexts that are active on thread t
ActiveOn(hp, t) ==
    {p \in 1..Len(hp) : /\ hp[p].kind = "Context" /\ hp[p].live
                        /\ hp[p].data.active /\ hp[p].data.thread = t}

\* sf::Context::getActiveContext() on thread t: a context active on t, null if none
sfContext_getActiveContext(hp, t) ==
    IF ActiveOn(hp, t) = {} THEN {Null} ELSE ActiveOn(hp, t)

\* Context::new, on any running thread; the handle belongs to that thread
Context_new ==
    /\ Idle /\ Room
    /\ \E t \in thr.running, p \in FactoryReturns(heap) :
         LET res == IntoSfResult(FBoxNew(p)) IN
         /\ heap' = sfContext_new(heap, p, t)
         /\ nullCalls' = nullCalls
         /\ handles' = IF res.tag = "Ok"
                       THEN Append(handles, [Handle("Context", res.val, 0)
                                               EXCEPT !.thread = t])
                       ELSE handles
         /\ last' = [op |-> "Context_new", ret |-> p, res |-> res.tag,
                     h |-> IF res.tag = "Ok" THEN Len(handles) + 1 ELSE 0,
                     calls |-> <<Call("sfContext_new", p)>>]
    /\ OtherUnchanged

\* Context::set_active, by the thread that holds the handle
Context_set_active ==
    /\ Idle
    /\ \E h \in LiveHandles("Context"), active \in BOOLEAN :
         /\ handles[h].thread \in thr.running
         /\ heap' = sfContext_setActive(heap, handles[h].ptr, active, handles[h].thread)
         /\ nullCalls' = nullCalls + NullHit(handles[h].ptr)
         /\ last' = [op |-> "Context_set_active", ret |-> Null, res |-> "Ok", h |-> h,
                     calls |-> <<CallWith("sfContext_setActive", handles[h].ptr, active)>>]
    /\ UNCHANGED handles
    /\ OtherUnchanged

\* a query answered from a process-wide record of the active contexts
Context_active_context_global(t) ==
    UNION {sfContext_getActiveContext(heap, u) : u \in thr.running}

\* what Context::active_context can return on thread t
Context_active_context_on(t) == sfContext_getActiveContext(heap, t)

\* Context::active_context, on any running thread
Context_active_context ==
    /\ Idle
    /\ \E t \in thr.running :
         \E p \in Context_active_context_on(t) :
           thr' = [thr EXCEPT !.asked = t, !.got = p]
    /\ UNCHANGED <<heap, nullCalls, handles, last, boxes, pc, capLog, rec, str, iter>>

\* thread::spawn: one more thread runs
Thread_spawn ==
    /\ Idle
    /\ \E t \in Threads \ thr.running : thr' = [thr EXCEPT !.running = @ \cup {t}]
    /\ UNCHANGED <<heap, nullCalls, handles, last, boxes, pc, capLog, rec, str, iter>>

\* a drop that never reaches sfContext_del
Context_drop_leak(h) == <<>>

\* the calls `impl Drop for Context` makes for the handle h
Context_drop_calls(h) == <<Call("sfContext_del", handles[h].ptr)>>

Context_drop ==
    /\ Idle
    /\ \E h \in LiveHandles("Context") : Dropped(h, "Context_drop", Context_drop_calls(h))
    /\ OtherUnchanged

\* -------------------------------------------------------------- CircleShape
Radii == {0, 5}

\* a wrapper built without the null check
Expect_unchecked(p) == Ok(p)

\* NonNull::new(ptr).expect(..): the pointer, or a panic on null
Expect(p) == IF p = Null THEN [tag |-> "Panic"] ELSE Ok(p)

CircleShape_default ==
    /\ Idle /\ Room
    /\ \E circle \in FactoryReturns(heap) :
         LET res == Expect(circle) IN
         /\ heap' = ForeignNew(heap, "CircleShape", circle)
         /\ nullCalls' = nullCalls
         /\ Acquired("CircleShape", "CircleShape_default", circle, res,
                     <<Call("sfCircleShape_new", circle)>>)
    /\ OtherUnchanged

CircleShape_set_radius ==
    /\ Idle
    /\ \E h \in LiveHandles("CircleShape"), radius \in Radii :
         /\ heap' = ForeignUse(heap, handles[h].ptr,
                               [heap[handles[h].ptr].data EXCEPT !.radius = radius])
         /\ nullCalls' = nullCalls + NullHit(handles[h].ptr)
         /\ last' = [op |-> "CircleShape_set_radius", ret |-> Null, res |-> "Unit", h |-> h,
                     calls |-> <<Call("sfCircleShape_setRadius", handles[h].ptr)>>]
    /\ UNCHANGED handles
    /\ OtherUnchanged

\* a bitwise copy of the wrapper: the clone keeps the source's pointer
CircleShape_clone_alias(h, circle) == Handle("CircleShape", handles[h].ptr, h)

\* the handle `clone` builds from the pointer sfCircleShape_cpy returned; its
\* lifetime parameter is the source's (texture: self.texture)
CircleShape_clone_handle(h, circle) ==
    [Handle("CircleShape", circle, h) EXCEPT !.borrows = handles[h].borrows]

CircleShape_clone ==
    /\ Idle /\ Room
    /\ \E h \in LiveHandles("CircleShape"), circle \in FactoryReturns(heap) :
         LET res == Expect(circle) IN
         /\ heap' = ForeignCpy(ForeignUse(heap, handles[h].ptr, heap[handles[h].ptr].data),
                               handles[h].ptr, circle)
         /\ nullCalls' = nullCalls + NullHit(handles[h].ptr)
         /\ IF res.tag = "Panic"
            THEN /\ handles' = handles
                 /\ last' = [op |-> "CircleShape_clone", ret |-> circle, res |-> "Panic",
                             h |-> 0,
                             calls |-> <<Call("sfCircleShape_cpy", handles[h].ptr)>>]
            ELSE /\ handles' = Append(handles, CircleShape_clone_handle(h, res.val))
                 /\ last' = [op |-> "CircleShape_clone", ret |-> circle, res |-> "Ok",
                             h |-> Len(handles) + 1,
                             calls |-> <<Call("sfCircleShape_cpy", handles[h].ptr)>>]
    /\ OtherUnchanged

\* the calls `impl Drop for CircleShape` makes for the handle h
CircleShape_drop_calls(h) == <<Call("sfCircleShape_del", handles[h].ptr)>>

CircleShape_drop ==
    /\ Idle
    /\ \E h \in LiveHandles("CircleShape") :
         Dropped(h, "CircleShape_drop", CircleShape_drop_calls(h))
    /\ OtherUnchanged

\* ----------------------------------------------------------------- textures
\* a texture is acquired (Texture::new and the loaders return SfResult<FBox<Texture>>)
Texture_new ==
    /\ Idle /\ Room
    /\ \E p \in FactoryReturns(heap) :
         LET res == IntoSfResult(FBoxNew(p)) IN
         /\ heap' = ForeignNew(heap, "Texture", p)
         /\ nullCalls' = nullCalls
         /\ Acquired("Texture", "Texture_new", p, res, <<Call("sfTexture_new", p)>>)
    /\ OtherUnchanged

\* the live shapes whose lifetime parameter 's is a borrow of the texture handle th
Borrowers(th) ==
    {h \in LiveHandles("CircleShape") : th \in handles[h].borrows}

\* the texture's owner lets go of it; the borrow checker accepts this only where no
\* value whose type holds a borrow of the texture is still alive
Texture_drop ==
    /\ Idle
    /\ \E th \in LiveHandles("Texture") :
         /\ Borrowers(th) = {}
         /\ Dropped(th, "Texture_drop", <<Call("sfTexture_del", handles[th].ptr)>>)
    /\ OtherUnchanged

\* a texture parameter that is borrowed for the call only
set_texture_unbound(th) == {}

\* set_texture's parameter `texture: &'s Texture`: the borrow lasts for the shape's 's
set_texture_borrow(th) == {th}

\* Option of a raw pointer: raw.as_ref()
AsRef(raw) == IF raw = Null THEN None ELSE Some(raw)

\* CircleShape::with_texture: default(), then set_texture(texture, true)
CircleShape_with_texture ==
    /\ Idle /\ Room
    /\ \E th \in LiveHandles("Texture"), circle \in FactoryReturns(heap) :
         LET res == Expect(circle)
             made == ForeignNew(heap, "CircleShape", circle)
         IN  IF res.tag = "Panic"
             THEN /\ heap' = made
                  /\ nullCalls' = nullCalls
                  /\ handles' = handles
                  /\ last' = [op |-> "CircleShape_with_texture", ret |-> circle,
                              res |-> "Panic", h |-> 0,
                              calls |-> <<Call("sfCircleShape_new", circle)>>]
             ELSE /\ heap' = ForeignUse(made, res.val,
                                        [made[res.val].data
                                           EXCEPT !.texture = handles[th].ptr])
                  /\ nullCalls' = nullCalls + NullHit(res.val)
                  /\ handles' = Append(handles,
                                       [Handle("CircleShape", res.val, 0)
                                          EXCEPT !.borrows = set_texture_borrow(th)])
                  /\ last' = [op |-> "CircleShape_with_texture", ret |-> circle,
                              res |-> "Ok", h |-> Len(handles) + 1,
                              calls |-> <<Call("sfCircleShape_new", circle),
                                          CallWith("sfCircleShape_setTexture", res.val,
                                                   handles[th].ptr)>>]
    /\ OtherUnchanged

\* Shape::set_texture for CircleShape
CircleShape_set_texture ==
    /\ Idle
    /\ \E h \in LiveHandles("CircleShape"), th \in LiveHandles("Texture") :
         /\ heap' = ForeignUse(heap, handles[h].ptr,
                               [heap[handles[h].ptr].data EXCEPT !.texture = handles[th].ptr])
         /\ nullCalls' = nullCalls + NullHit(handles[h].ptr)
         /\ handles' = [handles EXCEPT ![h].borrows = @ \cup set_texture_borrow(th)]
         /\ last' = [op |-> "CircleShape_set_texture", ret |-> Null, res |-> "Unit",
                     h |-> h,
                     calls |-> <<CallWith("sfCircleShape_setTexture", handles[h].ptr,
                                          handles[th].ptr)>>]
    /\ OtherUnchanged

\* Shape::disable_texture for CircleShape: set_texture with a null texture
CircleShape_disable_texture ==
    /\ Idle
    /\ \E h \in LiveHandles("CircleShape") :
         /\ heap' = ForeignUse(heap, handles[h].ptr,
                               [heap[handles[h].ptr].data EXCEPT !.texture = Null])
         /\ nullCalls' = nullCalls + NullHit(handles[h].ptr)
         /\ last' = [op |-> "CircleShape_disable_texture", ret |-> Null, res |-> "Unit",
                     h |-> h,
                     calls |-> <<CallWith("sfCircleShape_setTexture", handles[h].ptr,
                                          Null)>>]
    /\ UNCHANGED handles
    /\ OtherUnchanged

\* Shape::texture for CircleShape: the pointer sfCircleShape_getTexture returns, as
\* an Option of a reference
CircleShape_texture ==
    /\ Idle
    /\ \E h \in LiveHandles("CircleShape") :
         LET raw == heap[handles[h].ptr].data.texture IN
         /\ heap' = ForeignUse(heap, handles[h].ptr, heap[handles[h].ptr].data)
         /\ nullCalls' = nullCalls + NullHit(handles[h].ptr)
         /\ last' = [op |-> "CircleShape_texture", ret |-> raw, res |-> AsRef(raw).tag,
                     h |-> h,
                     calls |-> <<Call("sfCircleShape_getTexture", handles[h].ptr)>>]
    /\ UNCHANGED handles
    /\ OtherUnchanged

\* ---------------------------------------------------------- C++ std::string
\* a foreign function hands the host an owned std::string; the host acquires it
StdString_acquire ==
    /\ Idle /\ Room
    /\ \E p \in FactoryReturns(heap) :
         LET res == IntoSfResult(FBoxNew(p)) IN
         /\ heap' = ForeignNew(heap, "StdString", p)
         /\ nullCalls' = nullCalls
         /\ Acquired("StdString", "StdString_acquire", p, res, <<Call("foreign", p)>>)
    /\ OtherUnchanged

\* sfStdString::data: reads the length and the bytes
sfStdString_data ==
    /\ Idle
    /\ \E h \in LiveHandles("StdString") :
         /\ heap' = ForeignUse(ForeignUse(heap, handles[h].ptr, heap[handles[h].ptr].data),
                               handles[h].ptr, heap[handles[h].ptr].data)
         /\ nullCalls' = nullCalls + 2 * NullHit(handles[h].ptr)
         /\ last' = [op |-> "sfStdString_data", ret |-> Null, res |-> "Unit", h |-> h,
                     calls |-> <<Call("sfStdString_getLength", handles[h].ptr),
                                 Call("sfStdString_getData", handles[h].ptr)>>]
    /\ UNCHANGED handles
    /\ OtherUnchanged

\* the calls `impl Dispose for sfStdString` makes for the handle h
sfStdString_dispose_calls(h) == <<Call("sfStdString_destroy", handles[h].ptr)>>

sfStdString_dispose ==
    /\ Idle
    /\ \E h \in LiveHandles("StdString") :
         Dropped(h, "sfStdString_dispose", sfStdString_dispose_calls(h))
    /\ OtherUnchanged

\* the recorder before start: nothing written, no block delivered
RecInit == [st |-> "idle", file |-> 0, log |-> <<>>]

\* the process at start: the main thread alone, no query made
ThrInit == [running |-> {MainThread}, asked |-> 0, got |-> Null]

\* no iteration under way
NoIter == [phase |-> "none", vec |-> <<>>, len |-> 0, cursor |-> 0, calls |-> <<>>,
           items |-> <<>>, nones |-> 0]

\* the string bridge when no conversion is under way
NoStr == [phase |-> "none", cs |-> <<>>, s |-> <<>>, buf |-> <<>>, out |-> <<>>,
          err |-> -1]

Init ==
    /\ heap = <<>>
    /\ nullCalls = 0
    /\ handles = <<>>
    /\ last = [op |-> "none", ret |-> Null, res |-> "Unit", h |-> 0, calls |-> <<>>]
    /\ boxes = <<>>
    /\ pc = [op |-> "idle"]
    /\ capLog = <<>>
    /\ rec = RecInit
    /\ str = NoStr
    /\ thr = ThrInit
    /\ iter = NoIter

Next ==
    \/ View_new
    \/ View_with_center_and_size
    \/ View_from_rect
    \/ View_reset
    \/ View_to_owned
    \/ View_drop
    \/ Context_new
    \/ Context_set_active
    \/ Context_drop
    \/ CircleShape_default
    \/ CircleShape_set_radius
    \/ CircleShape_clone
    \/ CircleShape_drop
    \/ StdString_acquire
    \/ sfStdString_data
    \/ sfStdString_dispose

Spec == Init /\ [][Next]_vars

\* the program after View::new has succeeded twice
InitView ==
    /\ heap = ForeignNew(ForeignNew(<<>>, "View", 1), "View", 2)
    /\ nullCalls = 0
    /\ handles = <<Handle("View", 1, 0), Handle("View", 2, 0)>>
    /\ last = [op |-> "View_new", ret |-> 2, res |-> "Ok", h |-> 2,
               calls |-> <<Call("sfView_new", 2)>>]
    /\ boxes = <<>>
    /\ pc = [op |-> "idle"]
    /\ capLog = <<>>
    /\ rec = RecInit
    /\ str = NoStr
    /\ thr = ThrInit
    /\ iter = NoIter

\* two views moved, turned, zoomed and measured
NextView ==
    \/ View_set_center
    \/ View_set_rotation
    \/ View_set_viewport
    \/ View_zoom
    \/ View_size

SpecView == InitView /\ [][NextView]_vars

\* shapes that borrow textures
NextTex ==
    \/ Texture_new
    \/ Texture_drop
    \/ CircleShape_default
    \/ CircleShape_with_texture
    \/ CircleShape_set_texture
    \/ CircleShape_disable_texture
    \/ CircleShape_texture
    \/ CircleShape_clone
    \/ CircleShape_drop

SpecTex == Init /\ [][NextTex]_vars

\* contexts made, activated, queried and dropped by several threads
NextCtx ==
    \/ Thread_spawn
    \/ Context_new
    \/ Context_set_active
    \/ Context_drop
    \/ Context_active_context

SpecCtx == Init /\ [][NextCtx]_vars


\* -------------------------------------------------------------- CustomShape
\* a capability: an implementation of the CustomShapePoints trait
Caps == {[n |-> k] : k \in 0..MaxPoints}
Cap_point_count(cap) == cap.n
Cap_point(cap, point) == <<10 * point, cap.n + point>>

ShapeHandle(sp, raw_impl) ==
    [kind |-> "CustomShape", ptr |-> sp, live |-> TRUE, from |-> 0, points |-> raw_impl]

\* a trampoline that asks the capability for the following point
get_point_callback_shifted(point, obj) ==
    [cb |-> "get_point", arg |-> point, obj |-> obj,
     calls |-> << <<"point", point + 1>> >>,
     ret |-> Cap_point(boxes[obj].cap, point + 1)]

\* get_point_count_callback(obj): (*shape).point_count()
get_point_count_callback(obj) ==
    [cb |-> "get_point_count", arg |-> 0, obj |-> obj,
     calls |-> << <<"point_count">> >>,
     ret |-> Cap_point_count(boxes[obj].cap)]

\* get_point_callback(point, obj): (*shape).point(point)
get_point_callback(point, obj) ==
    [cb |-> "get_point", arg |-> point, obj |-> obj,
     calls |-> << <<"point", point>> >>,
     ret |-> Cap_point(boxes[obj].cap, point)]

\* the boxes after a trampoline dereferenced obj: a read of a freed box is recorded
Deref(bx, obj) == IF bx[obj].live THEN bx ELSE [bx EXCEPT ![obj].stale = @ + 1]

ShapeFrame == UNCHANGED <<rec, str, thr, iter>>

CustomShape_new ==
    /\ Idle /\ Room /\ Len(boxes) < MaxShapes
    /\ \E points \in Caps, sp \in FactoryReturns(heap) :
         LET raw_impl == Len(boxes) + 1
             res == Expect(sp)
         IN
         /\ boxes' = Append(boxes, [cap |-> points, live |-> TRUE, frees |-> 0, stale |-> 0])
         /\ heap' = IF sp = Null THEN heap
                    ELSE Append(heap, [kind |-> "CustomShape", live |-> TRUE, dels |-> 0,
                                       stale |-> 0,
                                       data |-> [ud |-> raw_impl, verts |-> <<>>]])
         /\ handles' = IF res.tag = "Ok" THEN Append(handles, ShapeHandle(res.val, raw_impl))
                       ELSE handles
         /\ last' = [op |-> "CustomShape_new", ret |-> sp, res |-> res.tag,
                     h |-> IF res.tag = "Ok" THEN Len(handles) + 1 ELSE 0,
                     calls |-> <<Call("sfCustomShape_new", sp)>>]
    /\ capLog' = <<>>
    /\ UNCHANGED <<nullCalls, pc>>
    /\ ShapeFrame

\* CustomShape::update: the foreign object asks for the point count, then for each
\* point 0..count-1 in turn, and stores what it was given
CustomShape_update ==
    \/ /\ Idle
       /\ \E h \in LiveHandles("CustomShape") :
            LET ud == heap[handles[h].ptr].data.ud
                e == get_point_count_callback(ud)
            IN
            /\ capLog' = <<e>>
            /\ boxes' = Deref(boxes, ud)
            /\ pc' = [op |-> "update", h |-> h, n |-> e.ret, i |-> 0, verts |-> <<>>]
       /\ UNCHANGED <<heap, nullCalls, handles, last>>
       /\ ShapeFrame
    \/ /\ pc.op = "update" /\ pc.i < pc.n
       /\ LET ud == heap[handles[pc.h].ptr].data.ud
              e == get_point_callback(pc.i, ud)
          IN
          /\ capLog' = Append(capLog, e)
          /\ boxes' = Deref(boxes, ud)
          /\ pc' = [pc EXCEPT !.i = @ + 1, !.verts = Append(@, e.ret)]
       /\ UNCHANGED <<heap, nullCalls, handles, last>>
       /\ ShapeFrame
    \/ /\ pc.op = "update" /\ pc.i >= pc.n
       /\ heap' = ForeignUse(heap, handles[pc.h].ptr,
                             [heap[handles[pc.h].ptr].data EXCEPT !.verts = pc.verts])
       /\ last' = [op |-> "CustomShape_update", ret |-> Null, res |-> "Unit", h |-> pc.h,
                   calls |-> <<Call("sfCustomShape_update", handles[pc.h].ptr)>>]
       /\ pc' = [op |-> "idle"]
       /\ UNCHANGED <<nullCalls, handles, boxes, capLog>>
       /\ ShapeFrame

\* Shape::point_count: sfCustomShape_getPointCount asks the capability through the trampoline
CustomShape_point_count ==
    /\ Idle
    /\ \E h \in LiveHandles("CustomShape") :
         LET ud == heap[handles[h].ptr].data.ud
             e == get_point_count_callback(ud)
         IN
         /\ capLog' = <<e>>
         /\ boxes' = Deref(boxes, ud)
         /\ last' = [op |-> "CustomShape_point_count", ret |-> Null, res |-> e.ret, h |-> h,
                     calls |-> <<Call("sfCustomShape_getPointCount", handles[h].ptr)>>]
    /\ UNCHANGED <<heap, nullCalls, handles, pc>>
    /\ ShapeFrame

\* Shape::point(index): sfCustomShape_getPoint asks the capability through the trampoline
CustomShape_point ==
    /\ Idle
    /\ \E h \in LiveHandles("CustomShape"), index \in 0..MaxPoints :
         LET ud == heap[handles[h].ptr].data.ud
             e == get_point_callback(index, ud)
         IN
         /\ capLog' = <<e>>
         /\ boxes' = Deref(boxes, ud)
         /\ last' = [op |-> "CustomShape_point", ret |-> Null, res |-> e.ret, h |-> h,
                     calls |-> <<Call("sfCustomShape_getPoint", handles[h].ptr)>>]
    /\ UNCHANGED <<heap, nullCalls, handles, pc>>
    /\ ShapeFrame

\* a drop that reclaims the capability box before destroying the foreign object
CustomShape_drop_box_first ==
    \/ /\ Idle
       /\ \E h \in LiveHandles("CustomShape") :
            /\ boxes' = [boxes EXCEPT ![handles[h].points].live = FALSE,
                                      ![handles[h].points].frees = @ + 1]
            /\ handles' = [handles EXCEPT ![h].live = FALSE]
            /\ pc' = [op |-> "drop", h |-> h]
       /\ capLog' = <<>>
       /\ UNCHANGED <<heap, nullCalls, last>>
       /\ ShapeFrame
    \/ /\ pc.op = "drop"
       /\ heap' = ForeignDel(heap, handles[pc.h].ptr)
       /\ nullCalls' = nullCalls + NullHit(handles[pc.h].ptr)
       /\ last' = [op |-> "CustomShape_drop", ret |-> Null, res |-> "Unit", h |-> pc.h,
                   calls |-> <<Call("sfCustomShape_del", handles[pc.h].ptr)>>]
       /\ pc' = [op |-> "idle"]
       /\ UNCHANGED <<handles, boxes, capLog>>
       /\ ShapeFrame

\* impl Drop for CustomShape: sfCustomShape_del(handle), then Box::from_raw(points)
CustomShape_drop ==
    \/ /\ Idle
       /\ \E h \in LiveHandles("CustomShape") :
            /\ heap' = ForeignDel(heap, handles[h].ptr)
            /\ nullCalls' = nullCalls + NullHit(handles[h].ptr)
            /\ handles' = [handles EXCEPT ![h].live = FALSE]
            /\ pc' = [op |-> "drop", h |-> h]
       /\ capLog' = <<>>
       /\ UNCHANGED <<boxes, last>>
       /\ ShapeFrame
    \/ /\ pc.op = "drop"
       /\ boxes' = [boxes EXCEPT ![handles[pc.h].points].live = FALSE,
                                 ![handles[pc.h].points].frees = @ + 1]
       /\ last' = [op |-> "CustomShape_drop", ret |-> Null, res |-> "Unit", h |-> pc.h,
                   calls |-> <<Call("sfCustomShape_del", handles[pc.h].ptr)>>]
       /\ pc' = [op |-> "idle"]
       /\ UNCHANGED <<heap, nullCalls, handles, capLog>>
       /\ ShapeFrame

NextShape ==
    \/ CustomShape_new
    \/ CustomShape_update
    \/ CustomShape_point_count
    \/ CustomShape_point
    \/ CustomShape_drop

SpecShape == Init /\ [][NextShape]_vars


\* ----------------------------------------------------------- sound recorder
\* a sink that reports success whatever the write did
on_process_samples_ignore_error(file, len, written) ==
    [ret |-> TRUE, file |-> file + written]

\* FileRecorder::on_process_samples on a block of len samples: write_all of 2 * len
\* bytes, of which `written` reached the file; true iff all of them did
on_process_samples(file, len, written) ==
    IF written = 2 * len
    THEN [ret |-> TRUE, file |-> file + written]
    ELSE [ret |-> FALSE, file |-> file + written]

\* the recorder trampoline: hands the capability's answer to the foreign caller
on_process_callback(ret) == ret

RecFrame == UNCHANGED <<heap, nullCalls, handles, last, boxes, pc, capLog, str, thr, iter>>

\* SoundRecorderDriver::start: the foreign capture thread begins delivering blocks
SoundRecorderDriver_start ==
    /\ rec.st = "idle"
    /\ rec' = [rec EXCEPT !.st = "recording"]
    /\ RecFrame

\* the foreign capture thread delivers one block through the trampoline and stops
\* capturing when it is told to
ForeignCapture ==
    /\ rec.st = "recording"
    /\ Len(rec.log) < MaxBlocks
    /\ \E len \in 1..MaxSamples :
         \E written \in {0, 2 * len - 1, 2 * len} :
           LET r == on_process_samples(rec.file, len, written)
               sig == on_process_callback(r.ret)
           IN rec' = [st |-> IF sig THEN "recording" ELSE "stopped",
                      file |-> r.file,
                      log |-> Append(rec.log, [len |-> len, ok |-> written = 2 * len,
                                               ret |-> r.ret, sig |-> sig])]
    /\ RecFrame

\* the driver is dropped at the end of main: capture stops
SoundRecorderDriver_stop ==
    /\ rec.st = "recording"
    /\ rec' = [rec EXCEPT !.st = "stopped"]
    /\ RecFrame

NextRec ==
    \/ SoundRecorderDriver_start
    \/ ForeignCapture
    \/ SoundRecorderDriver_stop

SpecRec == Init /\ [][NextRec]_vars

\* ------------------------------------------------------------ string bridge
\* the Unicode scalar values the inputs are drawn from: U+0000, 'A', U+00E9,
\* U+20AC, U+1F600 (one, one, two, three and four bytes of UTF-8)
Chars == {0, 65, 233, 8364, 128512}

\* the 32-bit units foreign memory is drawn from: nul, 'A', U+20AC, and two that are
\* no scalar value (the surrogate 0xD800, and 0x110000 past the last code point)
Units == {0, 65, 8364, 55296, 1114112}

RECURSIVE SeqsUpTo(_, _)
SeqsUpTo(S, n) ==
    IF n = 0 THEN {<<>>}
    ELSE LET shorter == SeqsUpTo(S, n - 1) IN
         shorter \cup {Append(q, c) : q \in shorter, c \in S}

\* char::encode_utf8
Utf8Encode(c) ==
    IF c < 128 THEN <<c>>
    ELSE IF c < 2048 THEN <<192 + (c \div 64), 128 + (c % 64)>>
    ELSE IF c < 65536
         THEN <<224 + (c \div 4096), 128 + ((c \div 64) % 64), 128 + (c % 64)>>
    ELSE <<240 + (c \div 262144), 128 + ((c \div 4096) % 64),
           128 + ((c \div 64) % 64), 128 + (c % 64)>>

\* a String built from chars
RECURSIVE Utf8OfChars(_)
Utf8OfChars(cs) ==
    IF cs = <<>> THEN <<>> ELSE Utf8Encode(Head(cs)) \o Utf8OfChars(Tail(cs))

\* str::chars on well-formed UTF-8
RECURSIVE Utf8Chars(_)
Utf8Chars(b) ==
    IF b = <<>> THEN <<>>
    ELSE IF b[1] < 128 THEN <<b[1]>> \o Utf8Chars(SubSeq(b, 2, Len(b)))
    ELSE IF b[1] < 224
         THEN <<(b[1] - 192) * 64 + (b[2] - 128)>> \o Utf8Chars(SubSeq(b, 3, Len(b)))
    ELSE IF b[1] < 240
         THEN <<(b[1] - 224) * 4096 + (b[2] - 128) * 64 + (b[3] - 128)>>
              \o Utf8Chars(SubSeq(b, 4, Len(b)))
    ELSE <<(b[1] - 240) * 262144 + (b[2] - 128) * 4096 + (b[3] - 128) * 64
           + (b[4] - 128)>> \o Utf8Chars(SubSeq(b, 5, Len(b)))

\* index of the first nul of v, 0 when there is none
FirstNul(v) ==
    IF \E k \in 1..Len(v) : v[k] = 0
    THEN CHOOSE k \in 1..Len(v) : v[k] = 0 /\ \A j \in 1..(k - 1) : v[j] # 0
    ELSE 0

\* U32CString::from_vec: a nul is allowed in the last position only, and the
\* buffer is nul-terminated if it is not already
U32CString_from_vec(v) ==
    LET pos == FirstNul(v) IN
    IF pos = 0 THEN Ok(Append(v, 0))
    ELSE IF pos = Len(v) THEN Ok(v)
    ELSE [tag |-> "Err", pos |-> pos - 1]

\* an encoding that takes the string's bytes for its code units
with_as_sfstr_bytes(s) ==
    LET r == U32CString_from_vec(s) IN
    IF r.tag = "Ok" THEN r ELSE [tag |-> "Panic"]

\* SfStrConv for &str: U32CString::from_str(self).unwrap(), the buffer handed to `fun`
with_as_sfstr(s) ==
    LET r == U32CString_from_vec(Utf8Chars(s)) IN
    IF r.tag = "Ok" THEN r ELSE [tag |-> "Panic"]

ValidScalar(u) == (0 <= u /\ u < 55296) \/ (57344 <= u /\ u <= 1114111)

\* U32Str::to_string: the string of the units, or the index of the first invalid one
U32Str_to_string(units) ==
    IF \A k \in 1..Len(units) : ValidScalar(units[k])
    THEN Ok(Utf8OfChars(units))
    ELSE [tag |-> "Err",
          index |-> (CHOOSE k \in 1..Len(units) :
                       /\ ~ValidScalar(units[k])
                       /\ \A j \in 1..(k - 1) : ValidScalar(units[j])) - 1]

\* the replacement marker U+FFFD
Replacement == 65533

\* U32Str::to_string_lossy: every invalid unit becomes U+FFFD
U32Str_to_string_lossy(units) ==
    Utf8OfChars([k \in 1..Len(units) |->
                   IF ValidScalar(units[k]) THEN units[k] ELSE Replacement])

\* U32CStr::as_slice: the units without the nul terminator
AsSlice(buf) == SubSeq(buf, 1, Len(buf) - 1)

\* a decoding that reads the terminator as part of the string
to_rust_string_with_nul(buf) ==
    LET r == U32Str_to_string(buf) IN
    IF r.tag = "Ok" THEN r ELSE [tag |-> "Panic"]

\* SfStr::to_rust_string: self.0.to_string().unwrap()
to_rust_string(buf) ==
    LET r == U32Str_to_string(AsSlice(buf)) IN
    IF r.tag = "Ok" THEN r ELSE [tag |-> "Panic"]

\* an index counted from one
SfStrConvError_index_from_one(e) == e.index + 1

\* SfStrConvError::index: the index the Utf32Error carries
SfStrConvError_index(e) == e.index

\* SfStr::try_to_rust_string: the string, or the conversion error
try_to_rust_string(buf) ==
    LET r == U32Str_to_string(AsSlice(buf)) IN
    IF r.tag = "Ok" THEN r ELSE [tag |-> "Err", err |-> r]

\* U32CStr::from_ptr_str: the units at p up to and including the first nul
from_ptr_str(mem) == SubSeq(mem, 1, FirstNul(mem))

\* SfString::data: sfString_getLength units (the terminator is not counted) at
\* sfString_getData
SfString_data(mem) == SubSeq(mem, 1, Len(mem) - 1)

\* a formatting that stops at the first unit it cannot decode
SfString_fmt_strict(mem) ==
    LET r == U32Str_to_string(SfString_data(mem)) IN
    IF r.tag = "Ok" THEN r.val
    ELSE Utf8OfChars(SubSeq(SfString_data(mem), 1, r.index))

\* impl Display for SfString: U32Str::from_slice(data).to_string_lossy()
SfString_fmt(mem) == U32Str_to_string_lossy(SfString_data(mem))

\* host strings, to be encoded
StrInputs ==
    {[phase |-> "input", cs |-> cs, s |-> Utf8OfChars(cs), buf |-> <<>>, out |-> <<>>,
      err |-> -1] : cs \in SeqsUpTo(Chars, MaxLen)}

\* foreign UTF-32 memory, to be decoded: any units, then the terminating nul
RawInputs ==
    {[phase |-> "raw", cs |-> <<>>, s |-> <<>>, buf |-> Append(units, 0), out |-> <<>>,
      err |-> -1] : units \in SeqsUpTo(Units, MaxLen)}

StrFrame == UNCHANGED <<heap, nullCalls, handles, last, boxes, pc, capLog, rec, thr, iter>>

\* s.with_as_sfstr(fun): the conversion, up to the call of `fun`
Str_with_as_sfstr ==
    /\ str.phase = "input"
    /\ LET r == with_as_sfstr(str.s) IN
       str' = IF r.tag = "Ok" THEN [str EXCEPT !.phase = "encoded", !.buf = r.val]
              ELSE [str EXCEPT !.phase = "panicked"]
    /\ StrFrame

\* to_rust_string on an SfStr: the one `fun` was handed ("encoded"), or one over
\* foreign memory ("sfstr")
SfStr_to_rust_string ==
    /\ str.phase \in {"encoded", "sfstr"}
    /\ LET r == to_rust_string(str.buf) IN
       str' = IF r.tag = "Ok"
              THEN [str EXCEPT !.phase = IF str.phase = "encoded" THEN "decoded"
                                         ELSE "sfstr_decoded",
                               !.out = r.val]
              ELSE [str EXCEPT !.phase = IF str.phase = "encoded" THEN "panicked"
                                         ELSE "sfstr_panicked"]
    /\ StrFrame

\* the host views foreign memory as an SfStr
SfStr_from_ptr_str ==
    /\ str.phase = "raw"
    /\ str' = [str EXCEPT !.phase = "sfstr", !.buf = from_ptr_str(str.buf)]
    /\ StrFrame

\* try_to_rust_string on an SfStr over foreign memory, then index() on the error
SfStr_try_to_rust_string ==
    /\ str.phase = "sfstr"
    /\ LET r == try_to_rust_string(str.buf) IN
       str' = IF r.tag = "Ok" THEN [str EXCEPT !.phase = "tried_ok", !.out = r.val]
              ELSE [str EXCEPT !.phase = "tried_err",
                               !.err = SfStrConvError_index(r.err)]
    /\ StrFrame

\* the foreign memory is an sf::String's, and the host formats it
SfString_fmt_display ==
    /\ str.phase = "raw"
    /\ str' = [str EXCEPT !.phase = "displayed", !.out = SfString_fmt(str.buf)]
    /\ StrFrame

InitStr ==
    /\ heap = <<>>
    /\ nullCalls = 0
    /\ handles = <<>>
    /\ last = [op |-> "none", ret |-> Null, res |-> "Unit", h |-> 0, calls |-> <<>>]
    /\ boxes = <<>>
    /\ pc = [op |-> "idle"]
    /\ capLog = <<>>
    /\ rec = RecInit
    /\ str \in StrInputs \cup RawInputs
    /\ thr = ThrInit
    /\ iter = NoIter

NextStr ==
    \/ Str_with_as_sfstr
    \/ SfStr_to_rust_string
    \/ SfStr_from_ptr_str
    \/ SfStr_try_to_rust_string
    \/ SfString_fmt_display

SpecStr == InitStr /\ [][NextStr]_vars

\* ------------------------------------------------------ string vector iterator
\* the strings a foreign vector holds, and what a read past its end may give
Elems == {"x", "y"}
Garbage == "garbage"

\* sfStdStringVector_getLength
sfStdStringVector_getLength(vec) == Len(vec)

\* sfStdStringVector_index(vec, index): the element, or anything when index is past
\* the end (the foreign vector does not check it)
sfStdStringVector_index(vec, index) ==
    IF index < Len(vec) THEN {vec[index + 1]} ELSE Elems \cup {Garbage}

\* a test that lets the cursor reach one past the end
Exhausted_after_len(cursor, len) == cursor > len

\* the test `self.cursor >= self.len` of next
Exhausted(cursor, len) == cursor >= len

IterFrame ==
    UNCHANGED <<heap, nullCalls, handles, last, boxes, pc, capLog, rec, str, thr>>

\* IntoIterator for &sfStdStringVector
sfStdStringVector_into_iter ==
    /\ iter.phase = "vec"
    /\ iter' = [iter EXCEPT !.phase = "iter",
                            !.len = sfStdStringVector_getLength(iter.vec),
                            !.cursor = 0]
    /\ IterFrame

\* Iterator::next for sfStdStringVectorIter
sfStdStringVectorIter_next ==
    /\ iter.phase = "iter"
    /\ IF Exhausted(iter.cursor, iter.len)
       THEN /\ iter.nones < MaxExtra
            /\ iter' = [iter EXCEPT !.nones = @ + 1]
       ELSE \E item \in sfStdStringVector_index(iter.vec, iter.cursor) :
              iter' = [iter EXCEPT !.calls = Append(@, iter.cursor),
                                   !.cursor = @ + 1,
                                   !.items = Append(@, item)]
    /\ IterFrame

\* the foreign vectors handed to the host
IterInputs ==
    {[NoIter EXCEPT !.phase = "vec", !.vec = v] : v \in SeqsUpTo(Elems, MaxVec)}

InitIter ==
    /\ heap = <<>>
    /\ nullCalls = 0
    /\ handles = <<>>
    /\ last = [op |-> "none", ret |-> Null, res |-> "Unit", h |-> 0, calls |-> <<>>]
    /\ boxes = <<>>
    /\ pc = [op |-> "idle"]
    /\ capLog = <<>>
    /\ rec = RecInit
    /\ str = NoStr
    /\ thr = ThrInit
    /\ iter \in IterInputs

NextIter ==
    \/ sfStdStringVector_into_iter
    \/ sfStdStringVectorIter_next

SpecIter == InitIter /\ [][NextIter]_vars

\* ================================================================== claims
HandleIds == 1..Len(handles)
Ptrs == 1..Len(heap)
Owners(p) == {h \in HandleIds : handles[h].live /\ handles[h].ptr = p}
UseOps == {"View_reset", "Context_set_active", "CircleShape_set_radius", "sfStdString_data"}

\* C1: a non-null pointer returned by sfView_new / sfContext_new is acquired (the
\* result is Ok and a live handle wraps exactly that pointer), and the foreign
\* destructor of a View or Context handle's allocation has run zero times while
\* the handle lives and exactly once, as the only call of its drop, afterwards.
C1_AcquireThenOneDestructor ==
    /\ (last.op \in {"View_new", "Context_new"} /\ last.ret # Null) =>
         /\ last.res = "Ok"
         /\ last.h \in HandleIds
         /\ handles[last.h].ptr = last.ret
         /\ handles[last.h].live
    /\ \A h \in HandleIds :
         handles[h].kind \in {"View", "Context"} =>
           /\ handles[h].ptr \in Ptrs
           /\ heap[handles[h].ptr].dels = IF handles[h].live THEN 0 ELSE 1
    /\ last.op \in {"View_drop", "Context_drop"} =>
         /\ Len(last.calls) = 1
         /\ last.calls[1].fn = (IF last.op = "View_drop" THEN "sfView_del" ELSE "sfContext_del")
         /\ last.calls[1].ptr = handles[last.h].ptr

\* a View and a Context were both acquired and then dropped, each destructor ran once
C1_Witness ==
    /\ last.op = "Context_drop"
    /\ heap[handles[last.h].ptr].dels = 1
    /\ \E h \in HandleIds :
         handles[h].kind = "View" /\ ~handles[h].live /\ heap[handles[h].ptr].dels = 1

AcquireOps == {"View_new", "Context_new", "View_from_rect"}

\* C2: a step of View::new, Context::new or View::from_rect in which the factory
\* returned null ends in the error value, builds no handle, leaves the foreign heap
\* as it was and makes no foreign call but the factory's; and no foreign destructor
\* or mutator is ever handed a null pointer.
C2_NullAcquireFails ==
    /\ [](nullCalls = 0)
    /\ [][(last'.op \in AcquireOps /\ last'.ret = Null) =>
            /\ last'.res = "Err"
            /\ last'.h = 0
            /\ handles' = handles
            /\ heap' = heap
            /\ \A i \in 1..Len(last'.calls) :
                 last'.calls[i].fn \in {"sfView_new", "sfContext_new"}]_vars

\* from_rect's factory returned null after a handle had already been built
C2_Witness ==
    /\ last.op = "View_from_rect" /\ last.ret = Null /\ last.res = "Err"
    /\ Len(handles) > 0

\* C3: in every reachable state a live foreign allocation is owned by at most one
\* live handle, no allocation's destructor has run more than once, and no foreign
\* call has touched an allocation after its destructor ran.
C3_UniqueOwnership ==
    \A p \in Ptrs :
      /\ heap[p].dels <= 1
      /\ heap[p].stale = 0
      /\ heap[p].live => Cardinality(Owners(p)) <= 1
      /\ heap[p].live <=> heap[p].dels = 0

\* a shape was created and cloned, the original dropped, the clone used, and a
\* string acquired and disposed
C3_Witness ==
    /\ last.op = "sfStdString_dispose"
    /\ \E o, c \in HandleIds :
         /\ handles[c].from = o /\ handles[c].kind = "CircleShape"
         /\ ~handles[o].live /\ handles[c].live
         /\ heap[handles[c].ptr].data.radius = 5

\* C4: a clone's allocation is not its original's; while either handle of the pair
\* lives its allocation is alive with no destructor call, whatever happened to the
\* other; a dropped clone's allocation saw exactly one destructor call; and a drop
\* calls the destructor on the dropped handle's own allocation only.
C4_CloneIndependent ==
    /\ \A c \in HandleIds :
         handles[c].from # 0 =>
           LET o == handles[c].from IN
           /\ handles[c].ptr # handles[o].ptr
           /\ handles[c].live =>
                heap[handles[c].ptr].live /\ heap[handles[c].ptr].dels = 0
           /\ handles[o].live =>
                heap[handles[o].ptr].live /\ heap[handles[o].ptr].dels = 0
           /\ ~handles[c].live => heap[handles[c].ptr].dels = 1
    /\ last.op \in {"View_drop", "CircleShape_drop"} =>
         /\ Len(last.calls) = 1
         /\ last.calls[1].ptr = handles[last.h].ptr
    /\ (last.op \in UseOps /\ handles[last.h].from # 0) =>
         heap[handles[last.h].ptr].stale = 0

\* b is a clone of a and c a clone of b; b was dropped, a and c are alive, and the
\* last operation used c
C4_Witness ==
    \E a, b, c \in HandleIds :
      /\ handles[b].from = a /\ handles[c].from = b
      /\ ~handles[b].live /\ handles[a].live /\ handles[c].live
      /\ heap[handles[a].ptr].live /\ heap[handles[c].ptr].live
      /\ last.op \in UseOps /\ last.h = c

ShapeIds == {h \in HandleIds : handles[h].kind = "CustomShape"}
BoxIds == 1..Len(boxes)
\* the foreign custom-shape objects that were handed box b as their user data
Paired(b) == {p \in Ptrs : heap[p].kind = "CustomShape" /\ heap[p].data.ud = b}

\* C5: for every constructed CustomShape, its capability box is freed at most once;
\* it is never freed while the paired foreign object is alive; while the shape
\* lives the box is allocated; once the shape's drop has finished, the foreign
\* object has been destroyed once and the box freed exactly once; and no trampoline
\* ever read a freed box.
C5_BoxReleasedAtDestruction ==
    \A s \in ShapeIds :
      LET b == handles[s].points
          p == handles[s].ptr
      IN
      /\ boxes[b].frees <= 1
      /\ boxes[b].stale = 0
      /\ boxes[b].frees >= 1 => ~heap[p].live
      /\ handles[s].live => (boxes[b].live /\ boxes[b].frees = 0 /\ heap[p].live)
      /\ (~handles[s].live /\ Idle) =>
           (~boxes[b].live /\ boxes[b].frees = 1 /\ heap[p].dels = 1)

\* a shape was updated (its callbacks ran) and then dropped: box freed, object destroyed
C5_Witness ==
    /\ Idle /\ last.op = "CustomShape_drop"
    /\ Len(heap[handles[last.h].ptr].data.verts) > 0
    /\ boxes[handles[last.h].points].frees = 1
    /\ ~heap[handles[last.h].ptr].live

\* C6: every capability box ever allocated by CustomShape::new has exactly one
\* paired foreign object, also when sfCustomShape_new returned null, and a box
\* whose construction failed does not stay allocated.
C6_BoxesPairedOneToOne ==
    \A b \in BoxIds :
      /\ Cardinality(Paired(b)) = 1
      /\ (last.op = "CustomShape_new" /\ last.res = "Panic" /\ b = Len(boxes)) =>
           ~boxes[b].live

\* the entries of the log after the first: the point requests of a traversal
PointArgs == [i \in 1..(Len(capLog) - 1) |-> capLog[i + 1].arg]

\* C7: every trampoline invocation made exactly one call of the capability, of the
\* matching method with the same argument, and returned that call's result; a
\* finished update asked for the count once and then for each index 0..count-1
\* exactly once, in order, and the foreign object holds the points it was given;
\* during a traversal the box is allocated and unfreed; no box is freed twice or
\* read after being freed, and the box of a dropped shape was freed once.
C7_TrampolineForwards ==
    /\ \A k \in 1..Len(capLog) :
         LET e == capLog[k]
             cap == boxes[e.obj].cap
         IN
         /\ e.cb = "get_point_count" =>
              (e.calls = << <<"point_count">> >> /\ e.ret = Cap_point_count(cap))
         /\ e.cb = "get_point" =>
              (e.calls = << <<"point", e.arg>> >> /\ e.ret = Cap_point(cap, e.arg))
         /\ boxes[e.obj].live /\ boxes[e.obj].frees = 0
    /\ (Idle /\ last.op = "CustomShape_update") =>
         LET cap == boxes[handles[last.h].points].cap IN
         /\ Len(capLog) = cap.n + 1
         /\ capLog[1].cb = "get_point_count"
         /\ \A i \in 1..cap.n : capLog[i + 1].cb = "get_point"
         /\ PointArgs = [i \in 1..cap.n |-> i - 1]
         /\ heap[handles[last.h].ptr].data.verts =
              [i \in 1..cap.n |-> Cap_point(cap, i - 1)]
    /\ pc.op = "update" =>
         (boxes[handles[pc.h].points].live /\ boxes[handles[pc.h].points].frees = 0)
    /\ \A b \in BoxIds : boxes[b].frees <= 1 /\ boxes[b].stale = 0
    /\ \A s \in ShapeIds :
         (~handles[s].live /\ Idle) => boxes[handles[s].points].frees = 1

\* an update made five trampoline invocations (the count and points 0..3)
C7_Witness ==
    /\ Idle /\ last.op = "CustomShape_update"
    /\ Len(capLog) = 5
    /\ PointArgs = <<0, 1, 2, 3>>

\* C8: the recording sink returns the stop value exactly on the invocations whose
\* write failed; the trampoline hands the foreign caller the sink's answer on that
\* same call; an invocation that signalled stop is the last one, and the capture
\* has then stopped; every earlier invocation signalled continue.
C8_StopEndsCapture ==
    /\ \A k \in 1..Len(rec.log) :
         LET e == rec.log[k] IN
         /\ e.ret = e.ok
         /\ e.sig = e.ret
         /\ ~e.ret => (k = Len(rec.log) /\ rec.st = "stopped")
         /\ k < Len(rec.log) => e.sig
    /\ rec.st = "idle" => rec.log = <<>>

\* the sink reported stop on its third invocation, after two that continued
C8_Witness ==
    /\ Len(rec.log) = 3
    /\ rec.log[1].sig /\ rec.log[2].sig
    /\ ~rec.log[3].ret /\ ~rec.log[3].sig
    /\ rec.st = "stopped"

HasNul(cs) == \E k \in 1..Len(cs) : cs[k] = 0

FirstInvalid(units) ==
    CHOOSE i \in 0..(Len(units) - 1) :
      /\ ~ValidScalar(units[i + 1])
      /\ \A j \in 1..i : ValidScalar(units[j])

AllValid(units) == \A k \in 1..Len(units) : ValidScalar(units[k])

\* C11: try_to_rust_string on a buffer whose first invalid unit is at zero-based
\* position i returns an error, no string, and the error's index() is i; on a
\* buffer with no invalid unit it returns Ok with the buffer's characters; the
\* buffer is the same before and after the conversion.
C11_TryDecodeReportsFirstInvalid ==
    /\ [](/\ str.phase = "tried_err" =>
               /\ ~AllValid(AsSlice(str.buf))
               /\ str.err = FirstInvalid(AsSlice(str.buf))
               /\ str.out = <<>>
          /\ str.phase = "tried_ok" =>
               /\ AllValid(AsSlice(str.buf))
               /\ str.err = -1
               /\ Utf8Chars(str.out) = AsSlice(str.buf))
    /\ [][str.phase = "sfstr" => str'.buf = str.buf]_vars

\* an error whose index is not 0, on a buffer with a second invalid unit after it
C11_Witness ==
    /\ str.phase = "tried_err"
    /\ str.err = 1
    /\ Len(str.buf) = 4
    /\ ~ValidScalar(str.buf[3])

\* C12 (as stated): decoding a UTF-32 buffer never fails; to_rust_string returns
\* a string for every buffer, with each invalid unit replaced by U+FFFD.
C12_DecodeNeverFails ==
    /\ str.phase # "sfstr_panicked"
    /\ str.phase = "sfstr_decoded" => str.out = U32Str_to_string_lossy(AsSlice(str.buf))

\* C12 (amended): formatting an SfString never fails and yields one character per
\* unit, the unit itself when it is a scalar value and U+FFFD when it is not;
\* SfStr::to_rust_string returns the buffer's characters when every unit is a
\* scalar value and panics otherwise.
C12_LossyDisplayStrictDecode ==
    /\ str.phase = "displayed" =>
         LET d == SfString_data(str.buf)
             cs == Utf8Chars(str.out)
         IN  /\ Len(cs) = Len(d)
             /\ \A k \in 1..Len(d) :
                  cs[k] = IF ValidScalar(d[k]) THEN d[k] ELSE Replacement
    /\ str.phase = "sfstr_decoded" =>
         /\ AllValid(AsSlice(str.buf))
         /\ Utf8Chars(str.out) = AsSlice(str.buf)
    /\ str.phase = "sfstr_panicked" => ~AllValid(AsSlice(str.buf))

\* a formatted string with a replaced unit followed by a kept one
C12_Witness ==
    /\ str.phase = "displayed"
    /\ Len(str.buf) = 4
    /\ ~ValidScalar(str.buf[1])
    /\ str.buf[2] = 8364
    /\ Utf8Chars(str.out)[1] = Replacement

Ctxs == {p \in Ptrs : heap[p].kind = "Context"}

\* the step is set_active(active) on the context p
IsSetActive(p, active) ==
    /\ last'.op = "Context_set_active"
    /\ handles[last'.h].ptr = p
    /\ last'.calls[1].arg = active

HeldBy(t) == {h \in HandleIds : handles[h].kind = "Context" /\ handles[h].thread = t}

\* C14: the context reported to a thread as its active one was made and activated by
\* that thread, never by another one; a thread that has made no context is told
\* there is none, whatever the other threads have active.
C14_ActivationPerThread ==
    /\ [](thr.got # Null =>
            /\ \E h \in HeldBy(thr.asked) : handles[h].ptr = thr.got
            /\ heap[thr.got].data.thread = thr.asked)
    /\ [][(thr'.asked # 0 /\ thr' # thr /\ thr'.running = thr.running) =>
            /\ HeldBy(thr'.asked) = {} => thr'.got = Null
            /\ thr'.got # Null =>
                 \E h \in HeldBy(thr'.asked) :
                   /\ handles[h].live /\ handles[h].ptr = thr'.got
                   /\ heap[thr'.got].data.active]_vars

\* the spawned thread asked and was told there is no active context, while a
\* context is active on the main thread
C14_Witness ==
    /\ thr.asked = 2 /\ thr.got = Null
    /\ HeldBy(2) = {}
    /\ \E p \in Ctxs : heap[p].live /\ heap[p].data.active /\ heap[p].data.thread = MainThread

\* the texture the foreign shape of handle h points at (Null if none)
BoundTexture(h) == heap[handles[h].ptr].data.texture

PanicOps == {"CircleShape_default", "View_with_center_and_size"}
ResultOps == {"View_new", "View_from_rect", "Context_new"}

CloneOps == {"View_to_owned", "CircleShape_clone"}

\* C17: a step of View::to_owned or CircleShape::clone makes exactly one foreign
\* call, the copy constructor on the source's pointer; if that returned null the
\* step panics, builds no handle and leaves handles and heap as they were;
\* otherwise the new handle wraps the returned pointer, which is not the source's,
\* and every earlier handle and the source's allocation are as before.
C17_CloneCopiesOnceOrPanics ==
    /\ [](\A h \in HandleIds :
            /\ handles[h].ptr # Null
            /\ handles[h].from # 0 => handles[h].ptr # handles[handles[h].from].ptr)
    /\ [][last'.op \in CloneOps =>
            /\ Len(last'.calls) = 1
            /\ last'.calls[1].fn = (IF last'.op = "View_to_owned" THEN "sfView_cpy"
                                    ELSE "sfCircleShape_cpy")
            /\ \E o \in HandleIds :
                 /\ handles[o].live /\ handles[o].ptr = last'.calls[1].ptr
                 /\ handles'[o] = handles[o]
                 /\ heap'[handles[o].ptr] = heap[handles[o].ptr]
                 /\ last'.ret # Null =>
                      /\ last'.res = "Ok"
                      /\ handles'[last'.h].from = o
            /\ last'.ret = Null =>
                 /\ last'.res = "Panic" /\ last'.h = 0
                 /\ handles' = handles /\ heap' = heap
            /\ last'.ret # Null =>
                 /\ last'.h = Len(handles) + 1 /\ Len(handles') = Len(handles) + 1
                 /\ handles'[last'.h].ptr = last'.ret
                 /\ last'.ret # last'.calls[1].ptr
                 /\ Len(heap') = Len(heap) + 1
                 /\ \A h \in HandleIds : handles'[h] = handles[h]]_vars

\* a clone panicked on a null copy; its source is still a live handle over a live
\* allocation
C17_Witness ==
    /\ last.op = "CircleShape_clone" /\ last.ret = Null /\ last.res = "Panic"
    /\ \E o \in HandleIds :
         /\ handles[o].live /\ handles[o].ptr = last.calls[1].ptr
         /\ heap[handles[o].ptr].live

\* the state of the view that handle h wraps
ViewOf(h) == heap[handles[h].ptr].data

\* C18: a view made by View::new has size (1000, 1000); a step of zoom(factor)
\* multiplies both components of that view's size by factor and leaves its center,
\* rotation and viewport, and every other view, as they were, so zoom(1) changes nothing
\* and zoom(2) takes (1000, 1000) to (2000, 2000); size() returns the view's size.
C18_ZoomMultipliesSize ==
    /\ []((last.op = "View_new" /\ last.res = "Ok") => ViewOf(last.h).size = <<1000, 1000>>)
    /\ [](last.op = "View_size" => last.ret = ViewOf(last.h).size)
    /\ [][last'.op = "View_zoom" =>
            LET p == handles[last'.h].ptr
                factor == last'.calls[1].arg
            IN  /\ heap'[p].data.size = <<heap[p].data.size[1] * factor,
                                          heap[p].data.size[2] * factor>>
                /\ heap'[p].data.center = heap[p].data.center
                /\ heap'[p].data.rotation = heap[p].data.rotation
                /\ heap'[p].data.viewport = heap[p].data.viewport
                /\ factor = 1 => heap'[p] = heap[p]
                /\ (factor = 2 /\ heap[p].data.size = <<1000, 1000>>) =>
                     heap'[p].data.size = <<2000, 2000>>
                /\ \A q \in Ptrs : q # p => heap'[q] = heap[q]]_vars

\* size() returned (2000, 2000) for a view whose center, rotation and viewport had
\* been set
C18_Witness ==
    /\ last.op = "View_size"
    /\ last.ret = <<2000, 2000>>
    /\ ViewOf(last.h).center = <<12, 23>>
    /\ ViewOf(last.h).viewport # DefaultViewport
    /\ ViewOf(last.h).rotation = 90

\* C19: at every point of an iteration over a vector of n strings the cursor is at
\* most n, the iterator's len is n, the foreign index calls made so far are for
\* 0, 1, .., cursor-1 in that order (each once, none >= n), and the items yielded
\* are the vector's first cursor elements in order; once a next() has returned
\* None all n elements have been yielded, and the further calls of next() have
\* added no index call and no item.
C19_IterYieldsEachOnce ==
    iter.phase = "iter" =>
      LET n == Len(iter.vec) IN
      /\ iter.len = n
      /\ iter.cursor <= n
      /\ iter.calls = [i \in 1..iter.cursor |-> i - 1]
      /\ \A k \in 1..Len(iter.calls) : iter.calls[k] < n
      /\ iter.items = SubSeq(iter.vec, 1, iter.cursor)
      /\ iter.nones > 0 =>
           /\ iter.cursor = n
           /\ iter.items = iter.vec
           /\ Len(iter.calls) = n

\* a vector of three strings, not all the same, was iterated to its end and next()
\* returned None twice more
C19_Witness ==
    /\ iter.phase = "iter"
    /\ Len(iter.vec) = 3 /\ iter.vec[1] # iter.vec[3]
    /\ iter.nones = 2
    /\ iter.items = iter.vec
====
